---------------------------- MODULE Spec2Model ----------------------------
(***************************************************************************)
(* Model of engine.js: the deterministic rule evaluator (runEngine,        *)
(* evalCond, applyThen), the success-template selector and the output      *)
(* shaping done by renderOutput, together with the page life cycle         *)
(* (loadRules, run-button handler).                                        *)
(*                                                                         *)
(* JavaScript values are tagged records [t |-> type, v |-> payload]:       *)
(* strings are TLA+ strings, arrays are sequences of values, objects are   *)
(* functions from property names to values.  gpa_unweighted is held in     *)
(* hundredths of a grade point (3.80 is 380).                              *)
(***************************************************************************)
EXTENDS Integers, Sequences, FiniteSets, TLC

VARIABLES
    RULESET,     \* the module-level `let RULESET`  (JNull until loadRules assigns it)
    wired,       \* TRUE once the DOMContentLoaded handler registered the run-button handler
    pc,          \* position of the page: "loading", "loaded", "load_failed", "idle", "running", "evaluated"
    input,       \* ctx.input of the evaluation in progress (a JS object)
    derived,     \* ctx.derived  [gpa_band, time_window]
    state,       \* ctx.state    [outputs |-> [locked, viable, actions, stop, notes], suppress |-> flags]
    stageIdx,    \* index in `stages` of the outer loop of runEngine
    ruleIdx,     \* index in `stageRules` of the inner loop of runEngine
    log,         \* history: one entry per rule evaluated in this evaluation
    presented,   \* what renderOutput handed to renderList / textContent, NoView before the first render
    raised       \* TRUE when the evaluation in progress ended with an exception

vars == <<RULESET, wired, pc, input, derived, state, stageIdx, ruleIdx, log, presented, raised>>

-----------------------------------------------------------------------------
(* JavaScript values *)

Undef    == [t |-> "undefined", v |-> 0]
JNull    == [t |-> "null", v |-> 0]
JBool(b) == [t |-> "bool", v |-> b]
JNum(n)  == [t |-> "num", v |-> n]
JStr(s)  == [t |-> "str", v |-> s]
JArr(a)  == [t |-> "arr", v |-> a]
JObj(f)  == [t |-> "obj", v |-> f]

\* `v == null`
IsNullish(v) == v.t \in {"undefined", "null"}

\* ToBoolean, as used by `if (x)`, `x || y`, `x ? a : b`
Truthy(v) ==
    CASE v.t = "undefined" -> FALSE
      [] v.t = "null"      -> FALSE
      [] v.t = "bool"      -> v.v
      [] v.t = "num"       -> v.v # 0
      [] v.t = "str"       -> v.v # ""
      [] OTHER             -> TRUE

\* `a === b`: primitives by value, arrays and objects by identity; an array or
\* object parsed from the ruleset is never the same object as one of the context
StrictEq(a, b) ==
    /\ a.t = b.t
    /\ a.t \notin {"arr", "obj"}
    /\ a.v = b.v

\* `k in o` for an object o
HasKey(o, k) == o.t = "obj" /\ k \in DOMAIN o.v

\* `o[k]` for a non-nullish o; a missing property reads as undefined
Get(o, k) ==
    IF o.t = "obj" /\ k \in DOMAIN o.v THEN o.v[k] ELSE Undef

\* Array.prototype.includes
ArrIncludes(a, x) == \E i \in 1..Len(a.v) : StrictEq(a.v[i], x)

\* strings of an array of strings, as a sequence of TLA+ strings
Strings(a) == [i \in 1..Len(a.v) |-> a.v[i].v]

-----------------------------------------------------------------------------
(* Strings *)

\* String.prototype.includes
StrIncludes(s, sub) ==
    \E i \in 1..(Len(s) - Len(sub) + 1) : SubSeq(s, i, i + Len(sub) - 1) = sub

LowerChar(c) ==
    CASE c = "A" -> "a" [] c = "B" -> "b" [] c = "C" -> "c" [] c = "D" -> "d"
      [] c = "E" -> "e" [] c = "F" -> "f" [] c = "G" -> "g" [] c = "H" -> "h"
      [] c = "I" -> "i" [] c = "J" -> "j" [] c = "K" -> "k" [] c = "L" -> "l"
      [] c = "M" -> "m" [] c = "N" -> "n" [] c = "O" -> "o" [] c = "P" -> "p"
      [] c = "Q" -> "q" [] c = "R" -> "r" [] c = "S" -> "s" [] c = "T" -> "t"
      [] c = "U" -> "u" [] c = "V" -> "v" [] c = "W" -> "w" [] c = "X" -> "x"
      [] c = "Y" -> "y" [] c = "Z" -> "z" [] OTHER -> c

RECURSIVE toLowerCase(_)
toLowerCase(s) ==
    IF s = "" THEN "" ELSE LowerChar(SubSeq(s, 1, 1)) \o toLowerCase(Tail(s))

\* String.prototype.split("."), scanning from position i with the segment
\* collected so far in cur
RECURSIVE SplitFrom(_, _, _)
SplitFrom(s, i, cur) ==
    IF i > Len(s) THEN <<cur>>
    ELSE IF SubSeq(s, i, i) = "." THEN <<cur>> \o SplitFrom(s, i + 1, "")
    ELSE SplitFrom(s, i + 1, cur \o SubSeq(s, i, i))

SplitDots(s) == SplitFrom(s, 1, "")

\* String(v) for the values a `field` entry takes in the modelled rulesets
JsString(v) ==
    CASE v.t = "str"       -> v.v
      [] v.t = "undefined" -> "undefined"
      [] v.t = "null"      -> "null"
      [] v.t = "bool"      -> IF v.v THEN "true" ELSE "false"
      [] OTHER             -> "[object]"

-----------------------------------------------------------------------------
(* Condition evaluation *)

\* getField: the loop over the segments of the path, from segment i with cur
\* the value reached so far
RECURSIVE WalkParts(_, _, _)
WalkParts(cur, parts, i) ==
    IF i > Len(parts) THEN cur
    ELSE IF IsNullish(cur) THEN Undef
    ELSE WalkParts(Get(cur, parts[i]), parts, i + 1)

getField(ctx, path) == WalkParts(ctx, SplitDots(JsString(path)), 1)

\* ToNumber of the right operand of `val >= cond.gte`; nan marks NaN.  Of the
\* strings only "" and non-numeric ones occur in the modelled rulesets.
GteOperand(v) ==
    CASE v.t = "num"  -> [nan |-> FALSE, n |-> v.v]
      [] v.t = "null" -> [nan |-> FALSE, n |-> 0]
      [] v.t = "bool" -> [nan |-> FALSE, n |-> IF v.v THEN 1 ELSE 0]
      [] v.t = "str" /\ v.v = "" -> [nan |-> FALSE, n |-> 0]
      [] v.t = "arr" /\ v.v = <<>> -> [nan |-> FALSE, n |-> 0]
      [] OTHER        -> [nan |-> TRUE, n |-> 0]

\* variant of evalLeaf whose eq compares with `==`: undefined and null are equal
evalLeaf_looseEq(ctx, cond) ==
    LET val == getField(ctx, Get(cond, "field")) IN
    IF HasKey(cond, "exists") THEN
        LET exists == /\ val.t # "undefined"
                      /\ val.t # "null"
                      /\ ~(val.t = "arr" /\ Len(val.v) = 0)
        IN  IF Truthy(cond.v["exists"]) THEN exists ELSE ~exists
    ELSE IF HasKey(cond, "eq") THEN
        (IsNullish(val) /\ IsNullish(cond.v["eq"])) \/ StrictEq(val, cond.v["eq"])
    ELSE IF HasKey(cond, "in") THEN
        IF cond.v["in"].t = "arr" THEN ArrIncludes(cond.v["in"], val) ELSE FALSE
    ELSE IF HasKey(cond, "gte") THEN
        /\ val.t = "num"
        /\ ~GteOperand(cond.v["gte"]).nan
        /\ val.v >= GteOperand(cond.v["gte"]).n
    ELSE IF HasKey(cond, "contains") THEN
        IF val.t # "arr" THEN FALSE ELSE ArrIncludes(val, cond.v["contains"])
    ELSE FALSE

\* the leaf part of evalCond (lines 86-101); cond is an object or an array here.
\* Property reads are of own properties: no segment of a modelled path names a
\* member of Object.prototype or `length`.
evalLeaf(ctx, cond) ==
    LET val == getField(ctx, Get(cond, "field")) IN
    IF HasKey(cond, "exists") THEN
        LET exists == /\ val.t # "undefined"
                      /\ val.t # "null"
                      /\ ~(val.t = "arr" /\ Len(val.v) = 0)
        IN  IF Truthy(cond.v["exists"]) THEN exists ELSE ~exists
    ELSE IF HasKey(cond, "eq") THEN StrictEq(val, cond.v["eq"])
    ELSE IF HasKey(cond, "in") THEN
        IF cond.v["in"].t = "arr" THEN ArrIncludes(cond.v["in"], val) ELSE FALSE
    ELSE IF HasKey(cond, "gte") THEN
        /\ val.t = "num"
        /\ ~GteOperand(cond.v["gte"]).nan
        /\ val.v >= GteOperand(cond.v["gte"]).n
    ELSE IF HasKey(cond, "contains") THEN
        IF val.t # "arr" THEN FALSE ELSE ArrIncludes(val, cond.v["contains"])
    ELSE FALSE

\* evalCond returns "true" or "false", or "TypeError" when the evaluation
\* throws: `x.every` / `x.some` of a truthy value that is no array, and the
\* `in` operator applied to a primitive.
RECURSIVE evalCond(_, _), EveryFrom(_, _, _), SomeFrom(_, _, _)
evalCond(ctx, cond) ==
    IF IsNullish(cond) THEN "true"
    ELSE IF Truthy(Get(cond, "all")) THEN
        IF Get(cond, "all").t = "arr" THEN EveryFrom(ctx, Get(cond, "all").v, 1)
        ELSE "TypeError"
    ELSE IF Truthy(Get(cond, "any")) THEN
        IF Get(cond, "any").t = "arr" THEN SomeFrom(ctx, Get(cond, "any").v, 1)
        ELSE "TypeError"
    ELSE IF cond.t \notin {"obj", "arr"} THEN "TypeError"
    ELSE IF evalLeaf(ctx, cond) THEN "true" ELSE "false"

\* cs.every(c => evalCond(ctx, c)) from element i: stops at the first false,
\* an exception of an element propagates
EveryFrom(ctx, cs, i) ==
    IF i > Len(cs) THEN "true"
    ELSE LET r == evalCond(ctx, cs[i]) IN
         IF r = "true" THEN EveryFrom(ctx, cs, i + 1) ELSE r

\* cs.some(c => evalCond(ctx, c)) from element i: stops at the first true
SomeFrom(ctx, cs, i) ==
    IF i > Len(cs) THEN "false"
    ELSE LET r == evalCond(ctx, cs[i]) IN
         IF r = "false" THEN SomeFrom(ctx, cs, i + 1) ELSE r

-----------------------------------------------------------------------------
(* Derived facts *)

\* gpa is a JS value; a number is in hundredths (3.80 is 380).  Every
\* comparison with a non-number is false for the values modelled.
computeGpaBand(gpa) ==
    IF gpa.t # "num" THEN "E"
    ELSE IF gpa.v >= 380 THEN "A"
    ELSE IF gpa.v >= 350 THEN "B"
    ELSE IF gpa.v >= 320 THEN "C"
    ELSE IF gpa.v >= 280 THEN "D"
    ELSE "E"

computeTimeWindow_gradeAtLeast12(gradeLevel, monthBucket) ==
    IF StrictEq(gradeLevel, JNum(9)) \/ StrictEq(gradeLevel, JNum(10)) THEN "early"
    ELSE IF StrictEq(gradeLevel, JNum(11)) THEN "late"
    ELSE IF gradeLevel.t = "num" /\ gradeLevel.v >= 12 THEN
        IF StrictEq(monthBucket, JStr("october_or_later")) THEN "closed" ELSE "final"
    ELSE "early"

computeTimeWindow(gradeLevel, monthBucket) ==
    IF StrictEq(gradeLevel, JNum(9)) \/ StrictEq(gradeLevel, JNum(10)) THEN "early"
    ELSE IF StrictEq(gradeLevel, JNum(11)) THEN "late"
    ELSE IF StrictEq(gradeLevel, JNum(12)) THEN
        IF StrictEq(monthBucket, JStr("october_or_later")) THEN "closed" ELSE "final"
    ELSE "early"

\* clamp(n, min, max) on hundredths
clamp(n, min, max) ==
    LET lo == IF max < n THEN max ELSE n IN IF min > lo THEN min ELSE lo

\* Array of strings from a sequence of TLA+ strings
StrArr(seq) == JArr([i \in 1..Len(seq) |-> JStr(seq[i])])

\* readInputs, for the fields the modelled rules and the selector read.  form
\* holds the values of the form controls: grade_level (parsed integer), month,
\* gpa (parsed, hundredths), systems and campuses (the selected options),
\* hasTravel (the travel box is not empty) and travel (its parsed integer).
readInputs(form) ==
    JObj([grade_level        |-> JNum(form.grade_level),
          grade_month_bucket |-> IF form.grade_level = 12 THEN JStr(form.month) ELSE JNull,
          gpa_unweighted     |-> JNum(clamp(form.gpa, 200, 400)),
          systems_considered |-> StrArr(form.systems),
          campus_targets_uc  |-> StrArr(form.campuses),
          summer_travel_weeks |-> IF form.hasTravel THEN JNum(form.travel) ELSE JNull])

-----------------------------------------------------------------------------
(* State accumulation *)

SuppressKeys == {"cc", "ap", "middle_college", "testing", "internships", "extracurriculars", "essays"}

initState ==
    [outputs  |-> [locked |-> <<>>, viable |-> <<>>, actions |-> <<>>, stop |-> <<>>, notes |-> <<>>],
     suppress |-> [k \in SuppressKeys |-> FALSE]]

\* is string x an element of the sequence arr
SeqIncludes(arr, x) == \E i \in 1..Len(arr) : arr[i] = x

\* the loop of uniqPush over the elements of items, from element i
RECURSIVE PushFrom(_, _, _)
PushFrom(arr, its, i) ==
    IF i > Len(its) THEN arr
    ELSE PushFrom(IF SeqIncludes(arr, its[i]) THEN arr ELSE Append(arr, its[i]), its, i + 1)

\* variant of uniqPush that appends without the membership test
uniqPush_append(arr, items) ==
    IF Truthy(items) THEN arr \o Strings(items) ELSE arr

\* uniqPush(arr, items): items is a JS value, `items || []` an array of strings
uniqPush(arr, items) ==
    IF Truthy(items) THEN PushFrom(arr, Strings(items), 1) ELSE arr

\* variant of applySuppress that assigns every boolean of the patch
applySuppress_assign(suppress, suppressPatch) ==
    IF ~Truthy(suppressPatch) THEN suppress
    ELSE LET set == {k \in DOMAIN suppressPatch.v : suppressPatch.v[k].t = "bool"}
         IN  [k \in (DOMAIN suppress) \cup set |->
                 IF k \in set THEN suppressPatch.v[k].v ELSE suppress[k]]

\* applySuppress returns the new flags
applySuppress(suppress, suppressPatch) ==
    IF ~Truthy(suppressPatch) THEN suppress
    ELSE LET on == {k \in DOMAIN suppressPatch.v : StrictEq(suppressPatch.v[k], JBool(TRUE))}
         IN  [k \in (DOMAIN suppress) \cup on |-> IF k \in on THEN TRUE ELSE suppress[k]]

\* variant of applyThen that appends the actions without looking for repeats
applyThen_appendActions(st, rule) ==
    LET t == IF Truthy(Get(rule, "then")) THEN Get(rule, "then") ELSE JObj(<<>>) IN
    [outputs  |-> [locked  |-> uniqPush(st.outputs.locked,  Get(t, "add_locked")),
                   viable  |-> uniqPush(st.outputs.viable,  Get(t, "add_viable")),
                   actions |-> uniqPush_append(st.outputs.actions, Get(t, "add_actions")),
                   stop    |-> uniqPush(st.outputs.stop,    Get(t, "add_stop")),
                   notes   |-> uniqPush(st.outputs.notes,   Get(t, "add_notes"))],
     suppress |-> applySuppress(st.suppress, Get(t, "set_suppress"))]

\* applyThen returns the new ctx.state
applyThen(st, rule) ==
    LET t == IF Truthy(Get(rule, "then")) THEN Get(rule, "then") ELSE JObj(<<>>) IN
    [outputs  |-> [locked  |-> uniqPush(st.outputs.locked,  Get(t, "add_locked")),
                   viable  |-> uniqPush(st.outputs.viable,  Get(t, "add_viable")),
                   actions |-> uniqPush(st.outputs.actions, Get(t, "add_actions")),
                   stop    |-> uniqPush(st.outputs.stop,    Get(t, "add_stop")),
                   notes   |-> uniqPush(st.outputs.notes,   Get(t, "add_notes"))],
     suppress |-> applySuppress(st.suppress, Get(t, "set_suppress"))]

\* the object { input, derived, state } handed to evalCond
CtxValue(inp, der, st) ==
    JObj([input   |-> inp,
          derived |-> JObj([gpa_band |-> JStr(der.gpa_band), time_window |-> JStr(der.time_window)]),
          state   |-> JObj([outputs  |-> JObj([locked  |-> StrArr(st.outputs.locked),
                                               viable  |-> StrArr(st.outputs.viable),
                                               actions |-> StrArr(st.outputs.actions),
                                               stop    |-> StrArr(st.outputs.stop),
                                               success_definition |-> JObj(<<>>),
                                               notes   |-> StrArr(st.outputs.notes)]),
                            suppress |-> JObj([k \in DOMAIN st.suppress |-> JBool(st.suppress[k])])])])

-----------------------------------------------------------------------------
(* Success template *)

\* `x || []` followed by .includes(s), for an array of strings x
ListIncludes(x, str) == Truthy(x) /\ x.t = "arr" /\ ArrIncludes(x, JStr(str))

\* variant of chooseSuccessTemplate that tests the selective campuses before UCM
chooseSuccessTemplate_selectiveFirst(inp, der) ==
    LET band     == der.gpa_band
        systems  == Get(inp, "systems_considered")
        campuses == Get(inp, "campus_targets_uc")
    IN
    IF der.time_window = "closed" THEN "closed_window"
    ELSE IF band = "C" \/ band = "D" \/ band = "E" THEN
        (IF ListIncludes(systems, "cc_transfer") THEN "cc_to_uc" ELSE "cc_transfer_refused")
    ELSE IF ListIncludes(systems, "uc") THEN
        IF \E c \in {"UCR", "UCSC", "UCSD", "UCLA"} : ListIncludes(campuses, c)
            THEN "floor_guarded_uc"
        ELSE IF ListIncludes(campuses, "UCM") THEN "access_uc"
        ELSE IF der.time_window = "early" THEN "mid_uc_early"
        ELSE "mid_uc_late"
    ELSE "csu"

chooseSuccessTemplate(inp, der) ==
    LET band          == der.gpa_band
        systems       == Get(inp, "systems_considered")
        campuses      == Get(inp, "campus_targets_uc")
        ccStructurallyPrimary == (band = "C" \/ band = "D" \/ band = "E")
        ccConsidered  == ListIncludes(systems, "cc_transfer")
    IN
    IF der.time_window = "closed" THEN "closed_window"
    ELSE IF ccStructurallyPrimary THEN
        (IF ccConsidered THEN "cc_to_uc" ELSE "cc_transfer_refused")
    ELSE IF ListIncludes(systems, "uc") THEN
        IF ListIncludes(campuses, "UCM") THEN "access_uc"
        ELSE IF \E c \in {"UCR", "UCSC", "UCSD", "UCLA"} : ListIncludes(campuses, c)
            THEN "floor_guarded_uc"
        ELSE IF der.time_window = "early" THEN "mid_uc_early"
        ELSE "mid_uc_late"
    ELSE "csu"

-----------------------------------------------------------------------------
(* Output shaping *)

DefaultSuccessText == "Define success based on the primary viable pathway."

\* arr.slice(0, n) for an integer n
SliceTo(arr, n) ==
    LET end == IF n < 0 THEN (IF Len(arr) + n < 0 THEN 0 ELSE Len(arr) + n)
               ELSE (IF n > Len(arr) THEN Len(arr) ELSE n)
    IN  SubSeq(arr, 1, end)

\* enforceConstraints(arr, maxN): arr is always an array here; maxN is a JS
\* value, a number in every modelled ruleset (true converts to 1)
enforceConstraints(arr, maxN) ==
    SliceTo(arr, CASE maxN.t = "num" -> maxN.v [] maxN.t = "bool" -> 1 [] OTHER -> 0)

\* `v || d`
OrElse(v, d) == IF Truthy(v) THEN v ELSE d

\* variant of filterSuppressed that matches the line as written, not lower-cased
filterSuppressed_caseSensitive(suppress, line) ==
    LET s == line
        suppressedKeys == {k \in DOMAIN suppress : suppress[k] = TRUE}
    IN
    IF "testing" \in suppressedKeys /\ StrIncludes(s, "test") THEN FALSE
    ELSE IF "cc" \in suppressedKeys /\ StrIncludes(s, "cc") THEN FALSE
    ELSE IF "ap" \in suppressedKeys /\ (StrIncludes(s, "ap") \/ StrIncludes(s, "honors")) THEN FALSE
    ELSE IF "internships" \in suppressedKeys /\ StrIncludes(s, "intern") THEN FALSE
    ELSE IF "extracurriculars" \in suppressedKeys /\ (StrIncludes(s, "ec") \/ StrIncludes(s, "club")) THEN FALSE
    ELSE IF "middle_college" \in suppressedKeys /\ StrIncludes(s, "middle college") THEN FALSE
    ELSE TRUE

\* filterSuppressed of renderOutput; suppress is ctx.state.suppress
filterSuppressed(suppress, line) ==
    LET s == toLowerCase(line)
        suppressedKeys == {k \in DOMAIN suppress : suppress[k] = TRUE}
    IN
    IF "testing" \in suppressedKeys /\ StrIncludes(s, "test") THEN FALSE
    ELSE IF "cc" \in suppressedKeys /\ StrIncludes(s, "cc") THEN FALSE
    ELSE IF "ap" \in suppressedKeys /\ (StrIncludes(s, "ap") \/ StrIncludes(s, "honors")) THEN FALSE
    ELSE IF "internships" \in suppressedKeys /\ StrIncludes(s, "intern") THEN FALSE
    ELSE IF "extracurriculars" \in suppressedKeys /\ (StrIncludes(s, "ec") \/ StrIncludes(s, "club")) THEN FALSE
    ELSE IF "middle_college" \in suppressedKeys /\ StrIncludes(s, "middle college") THEN FALSE
    ELSE TRUE

\* Array.from(new Set(arr)): first occurrences, in order
RECURSIVE DedupFrom(_, _, _)
DedupFrom(acc, arr, i) ==
    IF i > Len(arr) THEN acc
    ELSE DedupFrom(IF SeqIncludes(acc, arr[i]) THEN acc ELSE Append(acc, arr[i]), arr, i + 1)

NoView ==
    [shown |-> FALSE, locked |-> <<>>, viable |-> <<>>, actions |-> <<>>, stop |-> <<>>,
     notes |-> <<>>, templateKey |-> "", successText |-> "", gpa_band |-> "", time_window |-> ""]

\* variant of renderOutput that passes the stop list and the notes through the
\* suppression filter as well
renderOutput_filtersStopNotes(rs, inp, der, st) ==
    LET outputs == st.outputs
        c       == Get(rs, "output_constraints")
        locked  == enforceConstraints(outputs.locked, OrElse(Get(c, "max_locked"), JNum(7)))
        viable  == enforceConstraints(outputs.viable, OrElse(Get(c, "max_viable"), JNum(6)))
        stop    == SelectSeq(outputs.stop, LAMBDA line : filterSuppressed(st.suppress, line))
        kept    == SelectSeq(outputs.actions, LAMBDA line : filterSuppressed(st.suppress, line))
        actions == enforceConstraints(kept, OrElse(Get(c, "max_actions"), JNum(5)))
        templateKey == chooseSuccessTemplate(inp, der)
        templates   == Get(rs, "success_templates")
        text    == IF IsNullish(templates) THEN Undef ELSE Get(templates, templateKey)
        notes   == SliceTo(DedupFrom(<<>>, SelectSeq(outputs.notes,
                               LAMBDA line : filterSuppressed(st.suppress, line)), 1), 8)
    IN
    IF IsNullish(c) THEN [raised |-> TRUE, view |-> NoView]
    ELSE [raised |-> FALSE,
          view   |-> [shown |-> TRUE, locked |-> locked, viable |-> viable, actions |-> actions,
                      stop |-> stop, notes |-> notes, templateKey |-> templateKey,
                      successText |-> IF Truthy(text) THEN text.v ELSE DefaultSuccessText,
                      gpa_band |-> der.gpa_band, time_window |-> der.time_window]]

\* renderOutput: what reaches the page, or raised when `c.max_locked` is read
\* of a missing output_constraints.  stopC is computed (line 195) but the list
\* handed to renderList for stop_list is `stop` (line 227).
renderOutput(rs, inp, der, st) ==
    LET outputs == st.outputs
        c       == Get(rs, "output_constraints")
        locked  == enforceConstraints(outputs.locked, OrElse(Get(c, "max_locked"), JNum(7)))
        viable  == enforceConstraints(outputs.viable, OrElse(Get(c, "max_viable"), JNum(6)))
        stop    == outputs.stop
        kept    == SelectSeq(outputs.actions, LAMBDA line : filterSuppressed(st.suppress, line))
        actions == enforceConstraints(kept, OrElse(Get(c, "max_actions"), JNum(5)))
        stopC   == enforceConstraints(stop, OrElse(Get(c, "max_stop"), JNum(5)))
        templateKey == chooseSuccessTemplate(inp, der)
        templates   == Get(rs, "success_templates")
        text    == IF IsNullish(templates) THEN Undef ELSE Get(templates, templateKey)
        notes   == SliceTo(DedupFrom(<<>>, outputs.notes, 1), 8)
    IN
    IF IsNullish(c) THEN [raised |-> TRUE, view |-> NoView]
    ELSE [raised |-> FALSE,
          view   |-> [shown |-> TRUE, locked |-> locked, viable |-> viable, actions |-> actions,
                      stop |-> stop, notes |-> notes, templateKey |-> templateKey,
                      successText |-> IF Truthy(text) THEN text.v ELSE DefaultSuccessText,
                      gpa_band |-> der.gpa_band, time_window |-> der.time_window]]

-----------------------------------------------------------------------------
(* runEngine *)

\* variant of stagesOf that takes the stages in the order in which the rules
\* first mention them
stagesOf_byRulePosition(rs) ==
    IF Truthy(Get(rs, "execution_order")) THEN
        DedupFrom(<<>>, SelectSeq([k \in 1..Len(Get(rs, "rules").v) |-> Get(Get(rs, "rules").v[k], "stage").v],
                                  LAMBDA st : ArrIncludes(Get(rs, "execution_order"), JStr(st))), 1)
    ELSE <<>>

\* variant of stagesOf that, without a declared order, runs the stages the rules name
stagesOf_fallbackToRules(rs) ==
    IF Truthy(Get(rs, "execution_order")) /\ Len(Get(rs, "execution_order").v) > 0
        THEN Strings(Get(rs, "execution_order"))
    ELSE DedupFrom(<<>>, [k \in 1..Len(Get(rs, "rules").v) |-> Get(Get(rs, "rules").v[k], "stage").v], 1)

\* variant of stagesOf that runs the stages no entry of the order names after
\* the declared ones
stagesOf_appendUnlisted(rs) ==
    IF Truthy(Get(rs, "execution_order")) THEN
        Strings(Get(rs, "execution_order")) \o
        DedupFrom(<<>>, SelectSeq([k \in 1..Len(Get(rs, "rules").v) |-> Get(Get(rs, "rules").v[k], "stage").v],
                                  LAMBDA st : ~ArrIncludes(Get(rs, "execution_order"), JStr(st))), 1)
    ELSE <<>>

\* `RULESET.execution_order || []`, as a sequence of stage names
stagesOf(rs) ==
    IF Truthy(Get(rs, "execution_order")) THEN Strings(Get(rs, "execution_order")) ELSE <<>>

\* RULESET.rules, as a sequence of rule objects
rulesOf(rs) == Get(rs, "rules").v

\* RULESET.rules.filter(r => r.stage === stage), as the positions of the
\* selected rules in RULESET.rules, in the order of RULESET.rules
stageRules(rs, stage) ==
    SelectSeq([k \in 1..Len(rulesOf(rs)) |-> k],
              LAMBDA k : StrictEq(Get(rulesOf(rs)[k], "stage"), JStr(stage)))

\* variant of ruleFires that evaluates against the state the evaluation began with
ruleFires_initialState(inp, der, st, rule) ==
    evalCond(CtxValue(inp, der, initState), Get(rule, "when"))

\* the test of line 295: evalCond on the context built from the current state
ruleFires(inp, der, st, rule) == evalCond(CtxValue(inp, der, st), Get(rule, "when"))

\* the rule the two loops of runEngine are at
curStage == stagesOf(RULESET)[stageIdx]
curRules == stageRules(RULESET, curStage)
curRule  == rulesOf(RULESET)[curRules[ruleIdx]]

Positions == {"loading", "loaded", "load_failed", "idle", "running", "evaluated", "aborted"}

Init ==
    /\ RULESET = JNull
    /\ wired = FALSE
    /\ pc = "loading"
    /\ input = JNull
    /\ derived = [gpa_band |-> "", time_window |-> ""]
    /\ state = initState
    /\ stageIdx = 1
    /\ ruleIdx = 1
    /\ log = <<>>
    /\ presented = NoView
    /\ raised = FALSE

\* loadRules: the fetch and the parse succeed, RULESET is assigned
loadRules(rs) ==
    /\ pc = "loading"
    /\ RULESET' = rs
    /\ pc' = "loaded"
    /\ UNCHANGED <<wired, input, derived, state, stageIdx, ruleIdx, log, presented, raised>>

\* loadRules rejects (fetch or res.json() fails): the DOMContentLoaded handler
\* ends at its `await`
loadRulesFails ==
    /\ pc = "loading"
    /\ pc' = "load_failed"
    /\ UNCHANGED <<RULESET, wired, input, derived, state, stageIdx, ruleIdx, log, presented, raised>>

\* variant of wireHandlers that registers the click handlers after a failed
\* load as well
wireHandlers_afterFailure ==
    /\ pc \in {"loaded", "load_failed"}
    /\ wired' = TRUE
    /\ pc' = "idle"
    /\ UNCHANGED <<RULESET, input, derived, state, stageIdx, ruleIdx, log, presented, raised>>

\* the rest of the DOMContentLoaded handler: the click handlers are registered
wireHandlers ==
    /\ pc = "loaded"
    /\ wired' = TRUE
    /\ pc' = "idle"
    /\ UNCHANGED <<RULESET, input, derived, state, stageIdx, ruleIdx, log, presented, raised>>

\* variant of runClick that keeps the state object of the previous evaluation
runClick_keepsState(form) ==
    /\ wired
    /\ pc \in {"idle", "evaluated", "aborted"}
    /\ input' = readInputs(form)
    /\ derived' = [gpa_band    |-> computeGpaBand(Get(input', "gpa_unweighted")),
                   time_window |-> computeTimeWindow(Get(input', "grade_level"),
                                                     Get(input', "grade_month_bucket"))]
    /\ state' = state
    /\ stageIdx' = 1
    /\ ruleIdx' = 1
    /\ log' = <<>>
    /\ raised' = FALSE
    /\ pc' = "running"
    /\ UNCHANGED <<RULESET, wired, presented>>

\* click on run_btn: readInputs, then runEngine up to its loops
runClick(form) ==
    /\ wired
    /\ pc \in {"idle", "evaluated", "aborted"}
    /\ input' = readInputs(form)
    /\ derived' = [gpa_band    |-> computeGpaBand(Get(input', "gpa_unweighted")),
                   time_window |-> computeTimeWindow(Get(input', "grade_level"),
                                                     Get(input', "grade_month_bucket"))]
    /\ state' = initState
    /\ stageIdx' = 1
    /\ ruleIdx' = 1
    /\ log' = <<>>
    /\ raised' = FALSE
    /\ pc' = "running"
    /\ UNCHANGED <<RULESET, wired, presented>>

\* one iteration of the inner loop of runEngine: the rule's condition is
\* evaluated and, when true, its effect applied; an exception of evalCond ends
\* the click handler
evalRule_writesDerived ==
    /\ pc = "running"
    /\ stageIdx <= Len(stagesOf(RULESET))
    /\ ruleIdx <= Len(curRules)
    /\ LET r == ruleFires(input, derived, state, curRule) IN
       /\ log' = Append(log, [pass |-> stageIdx, rule |-> curRules[ruleIdx],
                              result |-> r, before |-> state])
       /\ state' = IF r = "true" THEN applyThen(state, curRule) ELSE state
       /\ derived' = IF r = "true" THEN [derived EXCEPT !.time_window = "late"] ELSE derived
       /\ raised' = (r = "TypeError")
       /\ pc' = IF r = "TypeError" THEN "aborted" ELSE "running"
    /\ ruleIdx' = ruleIdx + 1
    /\ UNCHANGED <<RULESET, wired, input, stageIdx, presented>>

evalRule ==
    /\ pc = "running"
    /\ stageIdx <= Len(stagesOf(RULESET))
    /\ ruleIdx <= Len(curRules)
    /\ LET r == ruleFires(input, derived, state, curRule) IN
       /\ log' = Append(log, [pass |-> stageIdx, rule |-> curRules[ruleIdx],
                              result |-> r, before |-> state])
       /\ state' = IF r = "true" THEN applyThen(state, curRule) ELSE state
       /\ raised' = (r = "TypeError")
       /\ pc' = IF r = "TypeError" THEN "aborted" ELSE "running"
    /\ ruleIdx' = ruleIdx + 1
    /\ UNCHANGED <<RULESET, wired, input, derived, stageIdx, presented>>

\* the inner loop is exhausted: next stage of execution_order
nextStage ==
    /\ pc = "running"
    /\ stageIdx <= Len(stagesOf(RULESET))
    /\ ruleIdx > Len(curRules)
    /\ stageIdx' = stageIdx + 1
    /\ ruleIdx' = 1
    /\ UNCHANGED <<RULESET, wired, pc, input, derived, state, log, presented, raised>>

\* runEngine returns; renderOutput(ctx)
render ==
    /\ pc = "running"
    /\ stageIdx > Len(stagesOf(RULESET))
    /\ LET out == renderOutput(RULESET, input, derived, state) IN
       /\ raised' = out.raised
       /\ presented' = IF out.raised THEN presented ELSE out.view
       /\ pc' = IF out.raised THEN "aborted" ELSE "evaluated"
    /\ UNCHANGED <<RULESET, wired, input, derived, state, stageIdx, ruleIdx, log>>

\* click on reset_btn: resetUI clears the lists; nothing is on display
resetClick ==
    /\ wired
    /\ pc \in {"idle", "evaluated", "aborted"}
    /\ presented' = NoView
    /\ pc' = "idle"
    /\ UNCHANGED <<RULESET, wired, input, derived, state, stageIdx, ruleIdx, log, raised>>

-----------------------------------------------------------------------------
(* Rulesets and form values the evaluations are explored with *)

MaxRules == 3     \* longest `rules` list of the rulesets of Spec

\* a rule object; an Undef `when` or `then` stands for an omitted entry
Rule(stage, when, then) ==
    JObj([k \in {"stage"} \cup (IF when = Undef THEN {} ELSE {"when"})
                          \cup (IF then = Undef THEN {} ELSE {"then"}) |->
          CASE k = "stage" -> JStr(stage) [] k = "when" -> when [] OTHER -> then])

Leaf(field, op, operand) ==
    JObj([k \in {"field", op} |-> IF k = "field" THEN JStr(field) ELSE operand])

\* a ruleset document; an Undef order stands for an omitted execution_order
Ruleset(rules, order, constraints) ==
    JObj([k \in {"engine_version", "rules", "output_constraints", "success_templates"}
                \cup (IF order = Undef THEN {} ELSE {"execution_order"}) |->
          CASE k = "engine_version"     -> JStr("v1")
            [] k = "rules"              -> JArr(rules)
            [] k = "output_constraints" -> constraints
            [] k = "success_templates"  -> JObj([csu |-> JStr("CSU is the plan."),
                                                 closed_window |-> JStr("")])
            [] OTHER                    -> order])

ManyActions == <<"Tour", "Essay", "Recs", "Club", "Intern", "Test prep">>

\* the rules the rulesets of Spec are made of
RulePool ==
    << \* unconditional: sets a flag and adds an action
       Rule("a", Undef, JObj([set_suppress |-> JObj([ap |-> JBool(TRUE)]),
                              add_actions  |-> StrArr(<<"Take AP">>)])),
       \* reads a flag set by an earlier rule
       Rule("a", Leaf("state.suppress.ap", "eq", JBool(TRUE)),
            JObj([add_actions |-> StrArr(<<"Apply", "Take AP">>),
                  add_notes   |-> StrArr(<<"ap off">>)])),
       \* tries to clear a flag, sets another, pushes a repeated item
       Rule("b", Leaf("derived.gpa_band", "in", StrArr(<<"A", "B">>)),
            JObj([set_suppress |-> JObj([ap |-> JBool(FALSE), cc |-> JBool(TRUE)]),
                  add_locked   |-> StrArr(<<"L1", "L2", "L1">>),
                  add_actions  |-> StrArr(<<"Visit CC">>)])),
       \* reads an output item added by an earlier rule; fills actions and stop
       \* beyond every maximum
       Rule("b", JObj([any |-> JArr(<<Leaf("state.outputs.actions", "contains", JStr("Apply")),
                                        Leaf("input.summer_travel_weeks", "gte", JNum(2))>>)]),
            JObj([add_actions |-> StrArr(ManyActions),
                  add_stop    |-> StrArr(<<"S1", "S2", "S3", "S4", "S5", "S6">>),
                  add_locked  |-> StrArr(<<"L3", "L2">>)])),
       \* a stage that execution_order does not always list; no condition
       Rule("c", Undef, JObj([add_viable  |-> StrArr(<<"V1">>),
                              add_actions |-> StrArr(<<"Honors track">>),
                              set_suppress |-> JObj([gap_year |-> JBool(TRUE)])])),
       \* a condition that is no recognized shape
       Rule("a", JObj([all |-> JNum(5)]), JObj([add_notes |-> StrArr(<<"n">>)])) >>

\* execution orders; Undef stands for a ruleset without execution_order
ExecOrders ==
    {StrArr(<<"a", "b">>), StrArr(<<"b", "a">>), StrArr(<<"c", "b", "c">>), StrArr(<<>>), Undef}

\* every list of 1..MaxRules rules of the pool, as lists of positions in the pool
RuleLists == UNION {[1..n -> 1..Len(RulePool)] : n \in 1..MaxRules}

EngineRulesets ==
    {Ruleset([i \in DOMAIN f |-> RulePool[f[i]]], o, JObj([max_actions |-> JNum(2)])) :
        f \in RuleLists, o \in ExecOrders}

EngineForms ==
    {[grade_level |-> 11, month |-> "", gpa |-> 390, systems |-> <<"uc">>,
      campuses |-> <<"UCSD">>, hasTravel |-> TRUE, travel |-> 3],
     [grade_level |-> 12, month |-> "october_or_later", gpa |-> 300, systems |-> <<"cc_transfer">>,
      campuses |-> <<>>, hasTravel |-> FALSE, travel |-> 0]}

-----------------------------------------------------------------------------
(* Rulesets for the output shaping: one unconditional rule fills the state *)

MaxItems == 10    \* longest list one rule pushes to locked, viable, stop and notes

\* <<"L1", ..., "Ln">>
Items(prefix, n) == [i \in 1..n |-> prefix \o ToString(i)]

\* action lines, one or more for every keyword of the filter and some for none
AllLines ==
    <<"Take AP", "Tour", "Apply", "HONORS", "Test prep", "Visit CC", "Intern",
      "Recs", "Club", "Middle College", "Essay">>

ActionLists == {AllLines, <<"Take AP", "Essay", "Tour">>}

\* suppression patches: every single flag, none, two flags, and false values
Patches ==
    {JObj([k \in {f} |-> JBool(TRUE)]) : f \in SuppressKeys} \cup
    {Undef,
     JObj([ap |-> JBool(TRUE), testing |-> JBool(TRUE)]),
     JObj([ap |-> JBool(FALSE), cc |-> JBool(FALSE)])}

Limits(l, v, a, st) ==
    JObj([max_locked |-> JNum(l), max_viable |-> JNum(v), max_actions |-> JNum(a), max_stop |-> JNum(st)])

\* output_constraints: no entry, zeros, small, above the defaults, above every
\* list; Undef stands for a ruleset without output_constraints
ConstraintSets ==
    {JObj(<<>>), Limits(0, 0, 0, 0), Limits(2, 3, 2, 1), Limits(8, 7, 6, 6),
     Limits(MaxItems + 5, MaxItems + 5, MaxItems + 5, MaxItems + 5), Undef}

\* notes with a repeated last item
NotesOf(n) == IF n = 0 THEN <<>> ELSE Append(Items("N", n), "N1")

RenderRulesets ==
    {Ruleset(<<Rule("a", Undef,
                    JObj([add_locked   |-> StrArr(Items("L", n)),
                          add_viable   |-> StrArr(Items("V", n)),
                          add_stop     |-> StrArr(Items("S", n)),
                          add_notes    |-> StrArr(NotesOf(n)),
                          add_actions  |-> StrArr(acts),
                          set_suppress |-> patch]))>>,
             StrArr(<<"a">>), c) :
        n \in 0..MaxItems, acts \in ActionLists, patch \in Patches, c \in ConstraintSets}

RenderForms ==
    {[grade_level |-> 11, month |-> "", gpa |-> 390, systems |-> <<"uc">>,
      campuses |-> <<"UCSD">>, hasTravel |-> FALSE, travel |-> 0]}

-----------------------------------------------------------------------------
(* Form values for the success template: every time window, band, choice of
   systems and choice of campuses *)

TemplateRulesets ==
    {Ruleset(<<Rule("a", Undef, Undef)>>, StrArr(<<"a">>), JObj(<<>>))}

TemplateForms ==
    [grade_level : {9, 11, 12},
     month       : {"october_or_later", "september"},
     gpa         : {250, 300, 330, 360, 390},
     systems     : {<<>>, <<"uc">>, <<"csu">>, <<"cc_transfer">>, <<"cc_transfer", "uc">>, <<"csu", "uc">>},
     campuses    : {<<>>, <<"UCM">>, <<"UCLA">>, <<"UCM", "UCLA">>, <<"UCSD", "UCM">>, <<"UCB">>, <<"UCR", "UCSC">>},
     hasTravel   : {FALSE},
     travel      : {0}]

-----------------------------------------------------------------------------
(* Form values for the time window: grades below, in and above the range of
   the table, with and without a month *)

WindowForms ==
    [grade_level : 8..13,
     month       : {"october_or_later", "september", ""},
     gpa         : {250, 390},
     systems     : {<<>>, <<"uc">>},
     campuses    : {<<>>},
     hasTravel   : {FALSE},
     travel      : {0}]

-----------------------------------------------------------------------------
(* Rulesets for the reach of the flags: one unconditional rule puts lines with
   the keywords of the filter into every category and sets a set of flags *)

FlagRulesets ==
    {Ruleset(<<Rule("a", Undef,
                    JObj([add_locked   |-> StrArr(<<"AP track", "L1">>),
                          add_viable   |-> StrArr(<<"CC route", "V1">>),
                          add_stop     |-> StrArr(<<"Test prep", "Club", "S1">>),
                          add_notes    |-> StrArr(<<"Honors", "Intern", "Middle College", "N1">>),
                          add_actions  |-> StrArr(AllLines),
                          set_suppress |-> JObj([k \in on |-> JBool(TRUE)])]))>>,
             StrArr(<<"a">>), c) :
        on \in SUBSET SuppressKeys, c \in {JObj(<<>>), Limits(2, 3, 2, 1)}}

-----------------------------------------------------------------------------
(* Rulesets for the condition evaluator: one rule with a leaf condition *)

\* paths with a segment that the context does not have
MissingPaths ==
    {"input.nope", "input.nope.deeper", "derived.band.x", "state.suppress.zzz",
     "state.outputs.queue", "nothing.at.all", "input.grade_level.value",
     "input.grade_month_bucket.name", ""}

\* paths that the context has
PresentPaths ==
    {"input.grade_level", "input.summer_travel_weeks", "input.systems_considered",
     "derived.gpa_band", "state.suppress.ap", "state.outputs.notes"}

\* operator and operand of a leaf: the values a JSON document can hold
OpCases ==
    ({"eq"} \X {JNull, JBool(FALSE), JNum(0), JNum(11), JStr(""), JStr("undefined"), JStr("A"),
                JArr(<<>>), JObj(<<>>)})
    \cup ({"in"} \X {JArr(<<JNull>>), JArr(<<JStr("A"), JNum(11)>>), JArr(<<>>), JStr("A"), JNull})
    \cup ({"gte"} \X {JNum(0), JNum(-1), JNum(11), JNull, JStr("")})
    \cup ({"contains"} \X {JNull, JStr("uc"), JNum(0)})
    \cup ({"exists"} \X {JBool(TRUE), JBool(FALSE)})

CondRulesets ==
    {Ruleset(<<Rule("a", Leaf(path, oc[1], oc[2]), JObj([add_notes |-> StrArr(<<"fired">>)]))>>,
             StrArr(<<"a">>), JObj(<<>>)) :
        path \in MissingPaths \cup PresentPaths, oc \in OpCases}

\* the steps of the page, for the rulesets the fetch may deliver and the form
\* values the user may enter
Step(rulesets, forms) ==
    \/ \E rs \in rulesets : loadRules(rs)
    \/ loadRulesFails
    \/ wireHandlers
    \/ \E form \in forms : runClick(form)
    \/ evalRule
    \/ nextStage
    \/ render
    \/ resetClick

Next == Step(EngineRulesets, EngineForms)

Spec == Init /\ [][Next]_vars

NextRender == Step(RenderRulesets, RenderForms)

SpecRender == Init /\ [][NextRender]_vars

NextTemplate == Step(TemplateRulesets, TemplateForms)

SpecTemplate == Init /\ [][NextTemplate]_vars

NextWindow == Step(TemplateRulesets, WindowForms)

SpecWindow == Init /\ [][NextWindow]_vars

NextFlags == Step(FlagRulesets, RenderForms)

SpecFlags == Init /\ [][NextFlags]_vars

NextCond == Step(CondRulesets, EngineForms)

SpecCond == Init /\ [][NextCond]_vars

TypeOK ==
    /\ pc \in Positions
    /\ wired \in BOOLEAN
    /\ raised \in BOOLEAN
    /\ stageIdx \in 1..(Len(stagesOf(RULESET)) + 1)

-----------------------------------------------------------------------------
(* Notions the properties are stated with *)

Categories == {"locked", "viable", "actions", "stop", "notes"}

\* the declared execution order and the rules of the loaded ruleset
DeclaredOrder ==
    IF HasKey(RULESET, "execution_order") THEN Strings(RULESET.v["execution_order"]) ELSE <<>>

DeclaredRules == RULESET.v["rules"].v

\* the effect entry `key` of rule k of the loaded ruleset, Undef when omitted
EffectOf(k, key) ==
    IF HasKey(DeclaredRules[k], "then") THEN Get(DeclaredRules[k].v["then"], key) ELSE Undef

\* the strings rule k pushes to a category
PushedBy(k, cat) ==
    LET items == EffectOf(k, "add_" \o cat) IN IF items.t = "arr" THEN Strings(items) ELSE <<>>

\* the concatenation of all lists pushed to a category by the first n logged rules
RECURSIVE AllPushed(_, _)
AllPushed(cat, n) ==
    IF n = 0 THEN <<>>
    ELSE AllPushed(cat, n - 1) \o (IF log[n].result = "true" THEN PushedBy(log[n].rule, cat) ELSE <<>>)

\* s with every repeated occurrence removed
RECURSIVE FirstOccurrences(_)
FirstOccurrences(s) ==
    IF s = <<>> THEN <<>>
    ELSE LET front == FirstOccurrences(SubSeq(s, 1, Len(s) - 1)) IN
         IF \E i \in 1..(Len(s) - 1) : s[i] = s[Len(s)] THEN front ELSE Append(front, s[Len(s)])

NoRepeats(s) == \A i, j \in 1..Len(s) : i # j => s[i] # s[j]

\* the state produced by the rules that fired among the first n logged ones
RECURSIVE StateAfter(_)
StateAfter(n) ==
    IF n = 0 THEN initState
    ELSE IF log[n].result = "true" THEN applyThen(StateAfter(n - 1), DeclaredRules[log[n].rule])
    ELSE StateAfter(n - 1)

\* the flags rule k's patch gives the value b
PatchKeys(k, b) ==
    LET patch == EffectOf(k, "set_suppress") IN
    IF patch.t = "obj" THEN {f \in DOMAIN patch.v : patch.v[f] = JBool(b)} ELSE {}

IsOn(st, f) == f \in DOMAIN st.suppress /\ st.suppress[f]

\* C1: inside an evaluation a suppression flag that is true stays true in the
\* next state, and a fired rule whose patch gives a flag the value false
\* leaves that flag as it was.
C1_SuppressMonotonic ==
    [][pc = "running" =>
        /\ \A f \in DOMAIN state.suppress : state.suppress[f] => IsOn(state', f)
        /\ (Len(log') = Len(log) + 1 /\ log'[Len(log')].result = "true") =>
              \A f \in PatchKeys(log'[Len(log')].rule, FALSE) : IsOn(state', f) = IsOn(state, f)]_vars

\* a rule whose patch says ap: false has fired on a state where ap was true
C1_Witness ==
    /\ pc = "running"
    /\ \E i \in 1..Len(log) :
          /\ log[i].result = "true"
          /\ "ap" \in PatchKeys(log[i].rule, FALSE)
          /\ log[i].before.suppress["ap"]
    /\ state.suppress["ap"]

\* C2: each of the five output sequences holds no string twice and equals the
\* concatenation of all lists pushed to its category with every repeated
\* occurrence removed.
C2_UniqueInsertionOrder ==
    \A cat \in Categories :
        /\ NoRepeats(state.outputs[cat])
        /\ state.outputs[cat] = FirstOccurrences(AllPushed(cat, Len(log)))

\* [L1,L2,L1] then [L3,L2] were pushed to locked
C2_Witness ==
    /\ AllPushed("locked", Len(log)) = <<"L1", "L2", "L1", "L3", "L2">>
    /\ state.outputs.locked = <<"L1", "L2", "L3">>

\* C3: the result of every rule's condition is its value on the state produced
\* by all rules that fired before it, in the same or an earlier stage.
C3_SequentialVisibility ==
    \A i \in 1..Len(log) :
        log[i].result =
            evalCond(CtxValue(input, derived, StateAfter(i - 1)), Get(DeclaredRules[log[i].rule], "when"))

\* in one stage a rule set suppress.ap and the next rule, whose condition reads
\* state.suppress.ap, fired
C3_Witness ==
    \E i \in 1..(Len(log) - 1) :
        /\ log[i].pass = log[i + 1].pass
        /\ log[i].result = "true"
        /\ "ap" \in PatchKeys(log[i].rule, TRUE)
        /\ ~log[i].before.suppress["ap"]
        /\ Get(Get(DeclaredRules[log[i + 1].rule], "when"), "field") = JStr("state.suppress.ap")
        /\ log[i + 1].result = "true"

\* C4: rules are evaluated stage by stage in the order of execution_order, and
\* inside a stage in their order in ruleset.rules: every logged rule carries
\* the stage of its pass, and of two logged rules the earlier one has the
\* earlier pass or, in the same pass, the earlier position in ruleset.rules.
C4_StageOrder ==
    /\ \A i \in 1..Len(log) :
          /\ log[i].pass \in 1..Len(DeclaredOrder)
          /\ Get(DeclaredRules[log[i].rule], "stage") = JStr(DeclaredOrder[log[i].pass])
    /\ \A i, j \in 1..Len(log) :
          i < j => \/ log[i].pass < log[j].pass
                   \/ log[i].pass = log[j].pass /\ log[i].rule < log[j].rule

\* a rule of a later stage stands before a rule of an earlier stage in
\* ruleset.rules and was evaluated after it
C4_Witness ==
    \E i, j \in 1..Len(log) :
        /\ i < j
        /\ log[i].pass < log[j].pass
        /\ log[i].rule > log[j].rule
        /\ DeclaredOrder[log[i].pass] # DeclaredOrder[log[j].pass]

\* the condition of rule k, JNull when omitted
WhenOf(k) == IF HasKey(DeclaredRules[k], "when") THEN DeclaredRules[k].v["when"] ELSE JNull

\* every string rule k adds and every flag it sets is in state st
EffectIn(k, st) ==
    /\ \A cat \in Categories :
          \A i \in 1..Len(PushedBy(k, cat)) : SeqIncludes(st.outputs[cat], PushedBy(k, cat)[i])
    /\ \A f \in PatchKeys(k, TRUE) : IsOn(st, f)

\* C5: when the run-button handler has ended, every rule whose stage is listed
\* in execution_order has been evaluated in every pass of its stage, and every
\* rule whose condition held when it was evaluated has its effect in the state.
C5_NoShortCircuit ==
    pc \in {"evaluated", "aborted"} =>
        /\ \A p \in 1..Len(DeclaredOrder) : \A k \in 1..Len(DeclaredRules) :
              Get(DeclaredRules[k], "stage") = JStr(DeclaredOrder[p]) =>
                  \E i \in 1..Len(log) : log[i].pass = p /\ log[i].rule = k
        /\ \A i \in 1..Len(log) :
              evalCond(CtxValue(input, derived, log[i].before), WhenOf(log[i].rule)) = "true" =>
                  EffectIn(log[i].rule, state)

\* the shapes of a condition evalCond recognizes: a leaf with one of the five
\* operators, or all/any over a sequence
Recognized(cond) ==
    /\ cond.t = "obj"
    /\ \/ HasKey(cond, "all") /\ cond.v["all"].t = "arr"
       \/ HasKey(cond, "any") /\ cond.v["any"].t = "arr"
       \/ /\ ~HasKey(cond, "all") /\ ~HasKey(cond, "any")
          /\ \E op \in {"eq", "in", "gte", "contains", "exists"} : HasKey(cond, op)

\* C8: evalCond returns a boolean for every condition and never raises, and a
\* non-null condition of no recognized shape evaluates to false.
C8_EvalCondTotal ==
    \A i \in 1..Len(log) :
        /\ log[i].result \in {"true", "false"}
        /\ (~IsNullish(WhenOf(log[i].rule)) /\ ~Recognized(WhenOf(log[i].rule))) => log[i].result = "false"

\* the first n items of s
FirstN(s, n) == SubSeq(s, 1, IF n < Len(s) THEN n ELSE Len(s))

\* the entry `key` of output_constraints when it is given, else the default d
LimitOr(key, d) ==
    LET c == Get(RULESET, "output_constraints") IN IF HasKey(c, key) THEN c.v[key].v ELSE d

\* C6: the stop list presented after an evaluation has at most max_stop
\* (default 5) items and is the first max_stop items of state.outputs.stop.
C6_StopTruncated ==
    pc = "evaluated" =>
        /\ Len(presented.stop) <= LimitOr("max_stop", 5)
        /\ presented.stop = FirstN(state.outputs.stop, LimitOr("max_stop", 5))

\* C7: the presented locked list is the first max_locked items of
\* state.outputs.locked for every given max_locked, 0 included, and the first 7
\* when it is not given; likewise viable with max_viable and 6.
C7_LockedViableTruncated ==
    pc = "evaluated" =>
        /\ presented.locked = FirstN(state.outputs.locked, LimitOr("max_locked", 7))
        /\ presented.viable = FirstN(state.outputs.viable, LimitOr("max_viable", 6))

\* the strings of an input list, as a set
InputSet(key) == {Get(input, key).v[i].v : i \in 1..Len(Get(input, key).v)}

\* C9: the template key presented after an evaluation is the one of the first
\* matching row of the priority table.
C9_TemplatePriority ==
    pc = "evaluated" =>
        LET tw       == derived.time_window
            band     == derived.gpa_band
            systems  == InputSet("systems_considered")
            campuses == InputSet("campus_targets_uc")
            key      == presented.templateKey
            low      == band \in {"C", "D", "E"}
            uc       == tw # "closed" /\ ~low /\ "uc" \in systems
            selective == campuses \cap {"UCR", "UCSC", "UCSD", "UCLA"} # {}
        IN
        /\ tw = "closed" => key = "closed_window"
        /\ (tw # "closed" /\ low /\ "cc_transfer" \in systems) => key = "cc_to_uc"
        /\ (tw # "closed" /\ low /\ "cc_transfer" \notin systems) => key = "cc_transfer_refused"
        /\ (uc /\ "UCM" \in campuses) => key = "access_uc"
        /\ (uc /\ "UCM" \notin campuses /\ selective) => key = "floor_guarded_uc"
        /\ (uc /\ "UCM" \notin campuses /\ ~selective /\ tw = "early") => key = "mid_uc_early"
        /\ (uc /\ "UCM" \notin campuses /\ ~selective /\ tw # "early") => key = "mid_uc_late"
        /\ (tw # "closed" /\ ~low /\ "uc" \notin systems) => key = "csu"

\* band A, uc considered, UCM and UCLA both targeted: access_uc is presented
C9_Witness ==
    /\ pc = "evaluated"
    /\ derived.gpa_band = "A"
    /\ derived.time_window # "closed"
    /\ "uc" \in InputSet("systems_considered")
    /\ {"UCM", "UCLA"} \subseteq InputSet("campus_targets_uc")
    /\ presented.templateKey = "access_uc"

\* the substrings that discard a line when the flag is true
Keywords(flag) ==
    CASE flag = "testing"          -> {"test"}
      [] flag = "cc"               -> {"cc"}
      [] flag = "ap"               -> {"ap", "honors"}
      [] flag = "internships"      -> {"intern"}
      [] flag = "extracurriculars" -> {"ec", "club"}
      [] flag = "middle_college"   -> {"middle college"}
      [] OTHER                     -> {}

\* some true flag has a keyword that the lower-cased line contains
Suppressed(line) ==
    \E f \in DOMAIN state.suppress :
        state.suppress[f] /\ \E kw \in Keywords(f) : StrIncludes(toLowerCase(line), kw)

Survivors == SelectSeq(state.outputs.actions, LAMBDA line : ~Suppressed(line))

\* max_actions is given, positive and not below the number of accumulated actions
ActionsFit ==
    LET c == Get(RULESET, "output_constraints") IN
    HasKey(c, "max_actions") /\ c.v["max_actions"].v > 0
        /\ c.v["max_actions"].v >= Len(state.outputs.actions)

\* C10: the presented actions are, in order, accumulated lines that no true
\* flag's keyword matches, and they are all of those lines when max_actions
\* does not cut the list: a line is discarded if and only if some flag is true
\* and the lower-cased line contains one of that flag's substrings.
C10_KeywordFilter ==
    pc = "evaluated" =>
        /\ presented.actions = FirstN(Survivors, Len(presented.actions))
        /\ ActionsFit => presented.actions = Survivors

\* with ap suppressed the lines Take AP, Apply and HONORS are discarded and
\* every other line is presented
C10_Witness ==
    /\ pc = "evaluated"
    /\ ActionsFit
    /\ state.outputs.actions = AllLines
    /\ {f \in DOMAIN state.suppress : state.suppress[f]} = {"ap"}
    /\ presented.actions = <<"Tour", "Test prep", "Visit CC", "Intern", "Recs", "Club", "Middle College", "Essay">>

\* the key the priority table gives for the input and the derived facts
TableKey ==
    LET systems  == InputSet("systems_considered")
        campuses == InputSet("campus_targets_uc")
    IN
    CASE derived.time_window = "closed" -> "closed_window"
      [] derived.time_window # "closed" /\ derived.gpa_band \in {"C", "D", "E"} ->
            IF "cc_transfer" \in systems THEN "cc_to_uc" ELSE "cc_transfer_refused"
      [] OTHER ->
            IF "uc" \notin systems THEN "csu"
            ELSE IF "UCM" \in campuses THEN "access_uc"
            ELSE IF campuses \cap {"UCR", "UCSC", "UCSD", "UCLA"} # {} THEN "floor_guarded_uc"
            ELSE IF derived.time_window = "early" THEN "mid_uc_early"
            ELSE "mid_uc_late"

AllEmpty(rec) == \A cat \in Categories : rec[cat] = <<>>

\* C11: with execution_order missing or empty the run-button handler ends
\* without an exception, no rule is evaluated, the five categories are empty in
\* the state and on the page, every flag is false and the template key is the
\* one of the priority table.
C11_NoOrderNoRules ==
    (DeclaredOrder = <<>> /\ pc \in {"running", "evaluated", "aborted"}) =>
        /\ pc # "aborted" /\ ~raised
        /\ log = <<>>
        /\ AllEmpty(state.outputs)
        /\ \A f \in DOMAIN state.suppress : ~state.suppress[f]
        /\ pc = "evaluated" => (AllEmpty(presented) /\ presented.templateKey = TableKey)

\* grade 11, GPA 3.9, systems [uc], targets [UCSD], a ruleset without
\* execution_order whose rules are unconditional: floor_guarded_uc
C11_Witness ==
    /\ pc = "evaluated"
    /\ ~HasKey(RULESET, "execution_order")
    /\ \E k \in 1..Len(DeclaredRules) : ~HasKey(DeclaredRules[k], "when")
    /\ Get(input, "grade_level") = JNum(11)
    /\ Get(input, "gpa_unweighted") = JNum(390)
    /\ presented.templateKey = "floor_guarded_uc"
    /\ AllEmpty(presented)

\* a leaf condition: an object with a field and neither all nor any
IsLeaf(cond) == HasKey(cond, "field") /\ ~HasKey(cond, "all") /\ ~HasKey(cond, "any")

\* C12: a field path with an absent segment resolves to undefined, and a leaf
\* on such a field is false for eq, in, gte, contains and exists: true with
\* every operand, and true for exists: false.
C12_MissingField ==
    \A i \in 1..Len(log) :
        LET w == WhenOf(log[i].rule) IN
        (IsLeaf(w) /\ w.v["field"].t = "str" /\ w.v["field"].v \in MissingPaths) =>
            /\ getField(CtxValue(input, derived, log[i].before), w.v["field"]) = Undef
            /\ log[i].result =
                  IF HasKey(w, "exists") /\ w.v["exists"] = JBool(FALSE) THEN "true" ELSE "false"

\* a rule on a two-segment path below an absent entry fired through
\* exists: false
C12_Witness ==
    /\ Len(log) = 1
    /\ WhenOf(log[1].rule) = Leaf("input.nope.deeper", "exists", JBool(FALSE))
    /\ log[1].result = "true"
    /\ state.outputs.notes = <<"fired">>

\* the rules an evaluation visits for a rule list and an order: for every entry
\* of the order in turn, the rules of that stage in the order of the list
RECURSIVE Schedule(_, _, _)
Schedule(rules, order, p) ==
    IF p > Len(order) THEN <<>>
    ELSE SelectSeq(rules, LAMBDA r : Get(r, "stage") = JStr(order[p])) \o Schedule(rules, order, p + 1)

\* the state a first evaluation of the current input reaches on a schedule,
\* starting at its entry i in state st; an exception ends it
RECURSIVE RunFrom(_, _, _)
RunFrom(st, sched, i) ==
    IF i > Len(sched) THEN st
    ELSE LET r == evalCond(CtxValue(input, derived, st), Get(sched[i], "when")) IN
         IF r = "TypeError" THEN st
         ELSE RunFrom(IF r = "true" THEN applyThen(st, sched[i]) ELSE st, sched, i + 1)

\* runEngine has run through its loops or was left by an exception
EngineDone ==
    \/ pc \in {"evaluated", "aborted"}
    \/ pc = "running" /\ stageIdx > Len(DeclaredOrder)

\* C13: whatever was evaluated before, the state runEngine returns for an input
\* is the state a first evaluation of that input on a fresh state reaches.
C13_NoCrossEvaluationState ==
    EngineDone => state = RunFrom(initState, Schedule(DeclaredRules, DeclaredOrder, 1), 1)

\* runEngine returns for a second input while the page still shows the locked
\* items and actions of an evaluation of another input; none of them is in the
\* new state
C13_Witness ==
    /\ pc = "running" /\ stageIdx > Len(DeclaredOrder)
    /\ presented.shown
    /\ presented.gpa_band # derived.gpa_band
    /\ presented.locked # <<>>
    /\ state.outputs.locked = <<>>
    /\ \E i \in 1..Len(log) : log[i].result = "true"

\* C14: while an evaluation runs, input and derived stay as they were when it
\* began; rule effects change state.outputs and state.suppress only.
C14_InputDerivedFrame ==
    [][pc = "running" => (input' = input /\ derived' = derived)]_vars

\* an evaluation is under way, rules of it have fired and changed the state, and
\* derived is still what the input of this evaluation gives
C14_Witness ==
    /\ pc = "running"
    /\ \E i \in 1..Len(log) : log[i].result = "true" /\ log[i].before # state
    /\ state # initState
    /\ derived.gpa_band = computeGpaBand(Get(input, "gpa_unweighted"))
    /\ derived.time_window = computeTimeWindow(Get(input, "grade_level"),
                                               Get(input, "grade_month_bucket"))

\* the table of time windows
WindowTable(g, m) ==
    IF g \in {JNum(9), JNum(10)} THEN "early"
    ELSE IF g = JNum(11) THEN "late"
    ELSE IF g = JNum(12) THEN (IF m = JStr("october_or_later") THEN "closed" ELSE "final")
    ELSE "early"

GradeValues == {JNum(n) : n \in 0..14} \cup {JNull, Undef, JStr("11"), JStr("12")}

MonthValues == {JStr("october_or_later"), JStr("september"), JStr("October_or_later"),
                JStr(""), JNull, Undef}

\* C15: computeTimeWindow follows the table for every grade and month: early
\* for grade 9 or 10, late for grade 11, closed for grade 12 in october_or_later
\* and final for grade 12 with any other month or none, early for every other
\* grade; and derived.time_window of an evaluation is the table's entry for the
\* grade and month read from the form.
C15_TimeWindowTable ==
    /\ \A g \in GradeValues, m \in MonthValues : computeTimeWindow(g, m) = WindowTable(g, m)
    /\ input # JNull =>
           derived.time_window = WindowTable(Get(input, "grade_level"), Get(input, "grade_month_bucket"))

\* grade 13 was evaluated with the month october_or_later chosen on the form:
\* the window is early
C15_Witness ==
    /\ pc = "evaluated"
    /\ Get(input, "grade_level") = JNum(13)
    /\ derived.time_window = "early"
    /\ presented.time_window = "early"

\* C16: the presented actions are the first max_actions (default 5) lines, in
\* insertion order, of the lines that survive the suppression filter: the
\* filter is applied before the list is cut, for every given max_actions.
C16_FilterBeforeTruncate ==
    pc = "evaluated" => presented.actions = FirstN(Survivors, LimitOr("max_actions", 5))

\* the same with the limit the code uses: a given 0 counts as not given
C16_FilterBeforeTruncateNonZero ==
    pc = "evaluated" =>
        presented.actions = FirstN(Survivors, IF LimitOr("max_actions", 5) = 0 THEN 5
                                              ELSE LimitOr("max_actions", 5))

\* a line beyond position max_actions of the accumulated list is presented
\* because earlier lines were discarded
C16_Reach ==
    /\ pc = "evaluated"
    /\ LimitOr("max_actions", 5) > 0
    /\ \E i \in 1..Len(state.outputs.actions) :
           /\ i > LimitOr("max_actions", 5)
           /\ SeqIncludes(presented.actions, state.outputs.actions[i])
    /\ Len(presented.actions) = LimitOr("max_actions", 5)

\* the stage of a rule is an entry of the declared order
IsListed(r) == \E p \in 1..Len(DeclaredOrder) : Get(r, "stage") = JStr(DeclaredOrder[p])

\* the declared rules without those of unlisted stages
ListedRules == SelectSeq(DeclaredRules, IsListed)

\* C17: a rule whose stage is not in execution_order is never evaluated, so it
\* never fires and raises no error, and the state runEngine ends with is the
\* state the ruleset without such rules gives for the same input.
C17_UnlistedStageInert ==
    /\ \A i \in 1..Len(log) : IsListed(DeclaredRules[log[i].rule])
    /\ raised => \E i \in 1..Len(log) : log[i].result = "TypeError"
    /\ EngineDone => state = RunFrom(initState, Schedule(ListedRules, DeclaredOrder, 1), 1)

\* stage a is not in the order c, b, c; the ruleset has a rule of stage a with
\* the condition {all: 5}, which would raise if it were evaluated, and a rule
\* of stage c; the evaluation ended without error with the effect of the latter
C17_Witness ==
    /\ pc = "evaluated"
    /\ ~raised
    /\ DeclaredOrder = <<"c", "b", "c">>
    /\ \E k \in 1..Len(DeclaredRules) : DeclaredRules[k] = RulePool[6] /\ ~IsListed(DeclaredRules[k])
    /\ state.outputs.viable = <<"V1">>
    /\ state.outputs.notes = <<>>

\* C18: applying the effect of a rule twice in a row gives the state that
\* applying it once gives, for every rule and every state an evaluation passes
\* through; and when a rule that has fired fires again, the state stays as it
\* was: no item is added a second time and no flag is reset.
C18_ApplyThenIdempotent ==
    /\ \A k \in 1..Len(RulePool) :
           LET once == applyThen(state, RulePool[k]) IN applyThen(once, RulePool[k]) = once
    /\ \A j \in 1..Len(log) :
           (log[j].result = "true"
               /\ \E i \in 1..(j - 1) : log[i].rule = log[j].rule /\ log[i].result = "true") =>
               LET after == IF j < Len(log) THEN log[j + 1].before ELSE state IN
               after = log[j].before

\* with stage c listed twice the rule of stage c fired in the first and in the
\* third pass, after a rule of stage b had fired in between; its items are in
\* the lists once
C18_Witness ==
    /\ pc = "evaluated"
    /\ \E i, j \in 1..Len(log) :
           /\ log[i].pass = 1 /\ log[j].pass = 3
           /\ log[i].rule = log[j].rule
           /\ log[i].result = "true" /\ log[j].result = "true"
    /\ \E i \in 1..Len(log) : log[i].pass = 2 /\ log[i].result = "true"
    /\ state.outputs.viable = <<"V1">>
    /\ Len(SelectSeq(state.outputs.actions, LAMBDA a : a = "Honors track")) = 1
    /\ state.suppress["gap_year"]

\* what renderOutput presents for the current state with the flags fl in place
\* of its own
ViewWith(fl) == renderOutput(RULESET, input, derived, [state EXCEPT !.suppress = fl]).view

C20_EvaluationAfterLoad ==
    /\ [](/\ wired => (RULESET # JNull /\ pc \notin {"loading", "loaded", "load_failed"})
          /\ pc \in {"running", "evaluated", "aborted"} => (wired /\ RULESET # JNull)
          /\ (input # JNull \/ presented.shown \/ log # <<>>) => (wired /\ RULESET # JNull)
          /\ pc = "load_failed" => (~wired /\ RULESET = JNull /\ input = JNull
                                       /\ log = <<>> /\ presented = NoView))
    /\ [][pc = "load_failed" => (pc' = "load_failed" /\ ~wired')]_vars

\* rules of the loaded ruleset are being evaluated by the registered handler
C20_Witness ==
    /\ pc = "running"
    /\ wired
    /\ RULESET # JNull
    /\ input # JNull
    /\ Len(log) > 0

=============================================================================
